---- MODULE Spec2Model ----
(***************************************************************************)
(* A model of src/image_decoder_pipe.py: the process-wide aiohttp session, *)
(* Pipe.pipe as a state machine over its await points, and the recursive   *)
(* locator Pipe._find_base64_in_response as an operator over JSON trees.   *)
(*                                                                         *)
(* Strings whose content is opaque to the code but whose length it reads   *)
(* are modelled as runs: a character and a length (a string of len copies  *)
(* of c).  Mapping keys, which the code searches for substrings, are       *)
(* sequences of characters.                                                *)
(***************************************************************************)
EXTENDS Integers, Sequences, FiniteSets, TLC

\* ------------------------------------------------------------------ bounds
\* Number of pipe invocations the host runs, concurrently or one after another.
NumInv == 2
\* Most times the host closes the shared session.
MaxCloses == 1
\* Deepest nesting of containers around the innermost value of a built tree.
MaxDepth == 2
\* Most sibling entries added beside the nested value of a built tree.
MaxSiblings == 1

\* --------------------------------------------------------------- JSON values
\* One record shape for every JSON value: t is the Python type after json
\* parsing; c/len describe a str; items holds a dict's (key, value) pairs in
\* insertion order or a list's elements (key unused, <<>>).
JStr(c, n) == [t |-> "str", c |-> c, len |-> n, items |-> <<>>]
JNum == [t |-> "int", c |-> "", len |-> 0, items |-> <<>>]
JDict(items) == [t |-> "dict", c |-> "", len |-> 0, items |-> items]
JList(items) == [t |-> "list", c |-> "", len |-> 0, items |-> items]
\* Python's None (also what JSON null parses to).
None == [t |-> "NoneType", c |-> "", len |-> 0, items |-> <<>>]
Item(k, v) == [key |-> k, value |-> v]

\* Keys of upstream responses, as character sequences.
KeyBase64 == <<"b", "a", "s", "e", "6", "4">>
KeyB64Json == <<"b", "6", "4", "_", "j", "s", "o", "n">>
KeyImageUrl == <<"i", "m", "a", "g", "e", "_", "u", "r", "l">>
KeyData == <<"d", "a", "t", "a">>
Keys == {KeyBase64, KeyB64Json, KeyImageUrl, KeyData}

\* Python's `pat in key` on str.
Contains(pat, key) ==
  \E i \in 0..(Len(key) - Len(pat)) : SubSeq(key, i + 1, i + Len(pat)) = pat

\* Python truthiness of a value that is None or a str (`if found:`).
Truthy(v) == v.t = "str" /\ v.len > 0

\* The length threshold of line 81.
MinLen == 100

\* A key filter that accepts every key.
KeyMatchesAnyKey(key, value) == value.t = "str"

\* Line 79: isinstance(value, str) and ("b64" in key or "base64" in key or
\* "image" in key).
KeyMatches(key, value) ==
  /\ value.t = "str"
  /\ \/ Contains(<<"b", "6", "4">>, key)
     \/ Contains(<<"b", "a", "s", "e", "6", "4">>, key)
     \/ Contains(<<"i", "m", "a", "g", "e">>, key)

\* An off-by-one length test.
LongEnoughAtLeast(value) == value.len >= MinLen

\* Line 81: len(value) > 100.
LongEnough(value) == value.len > MinLen

RECURSIVE find_base64_in_response(_)
RECURSIVE FindInDict(_, _)
RECURSIVE FindInDictKeepLast(_, _)
RECURSIVE FindInList(_, _)

\* A loop that keeps scanning after a hit and so returns the last hit.
FindInDictKeepLast(items, i) ==
  IF i > Len(items) THEN None
  ELSE LET key == items[i].key
           value == items[i].value
           rest == FindInDictKeepLast(items, i + 1)
       IN IF Truthy(rest) THEN rest
          ELSE IF KeyMatches(key, value) /\ LongEnough(value) THEN value
          ELSE find_base64_in_response(value)

\* Lines 77-87: the loop over data.items(), from entry i on.
FindInDict(items, i) ==
  IF i > Len(items) THEN None
  ELSE LET key == items[i].key
           value == items[i].value
       IN IF KeyMatches(key, value) /\ LongEnough(value) THEN value
          ELSE LET found == find_base64_in_response(value)
               IN IF Truthy(found) THEN found ELSE FindInDict(items, i + 1)

\* Lines 89-92: the loop over a list, from element i on.
FindInList(items, i) ==
  IF i > Len(items) THEN None
  ELSE LET found == find_base64_in_response(items[i].value)
       IN IF Truthy(found) THEN found ELSE FindInList(items, i + 1)

\* Lines 71-93.
find_base64_in_response(data) ==
  IF data.t = "dict" THEN FindInDict(data.items, 1)
  ELSE IF data.t = "list" THEN FindInList(data.items, 1)
  ELSE None

\* ------------------------------------------------------------ locator inputs
\* Payload-like strings around the threshold, and a non-string scalar.
LongA == JStr("A", 101)
LongB == JStr("B", 150)
Short == JStr("S", 100)
Leaves == {LongA, LongB, Short, JNum}
\* What may stand beside the nested value: a scalar, or a mapping holding a
\* long string under an "image" key.
NestedImage == JDict(<<Item(KeyImageUrl, LongB)>>)
Siblings == Leaves \cup {NestedImage}

\* ------------------------------------------------------------------- state
VARIABLES
  \* locator calls: the tree handed to the locator, its result, whether the
  \* call has been made, and the shape of the tree built so far
  data, found, called, depth, nsib,
  \* self.valves
  valves,
  \* the module global AIOHTTP_SESSION (0 is None, n >= 1 the n-th session),
  \* the sessions created so far, and those whose .closed is True
  AIOHTTP_SESSION, nsessions, closed,
  \* per invocation of pipe: position, locals (api_url/api_key/model_id,
  \* session, response), the request on the wire, what was yielded, the
  \* exception raised in the try body ("" for none), the exception that left
  \* the generator, POSTs issued, whether the debug dump was printed
  pc, cfg, session, request, response, out, err, raised, posts, printed

lvars == <<data, found, called, depth, nsib>>
pvars == <<valves, AIOHTTP_SESSION, nsessions, closed,
           pc, cfg, session, request, response, out, err, raised, posts, printed>>
vars == <<lvars, pvars>>

\* --------------------------------------------------------- pipe: the data
Inv == 1..NumInv

\* Valves (lines 35-54): the defaults, and what an administrator may enter.
DefaultUrl == "https://manager.ai0728.com.cn/api/v1/inlet"
DefaultModel == "gemini-2.5-flash-image-preview"
DefaultValves == [API_URL |-> DefaultUrl, API_KEY |-> "", MODEL_ID |-> DefaultModel]
ValvesChoices ==
  { DefaultValves,
    [DefaultValves EXCEPT !.API_KEY = "sk-key"],
    [DefaultValves EXCEPT !.API_URL = ""],
    [DefaultValves EXCEPT !.MODEL_ID = ""] }
\* The locals of lines 100-102 before they are assigned.
NoCfg == [API_URL |-> "", API_KEY |-> "", MODEL_ID |-> ""]

\* Host payloads (`body`): mappings from top-level key to an opaque JSON value.
Bodies ==
  { [messages |-> "[user: draw a cat]"],
    [messages |-> "[user: draw a cat]", stream |-> "true", temperature |-> "0.7"],
    [model |-> "image_decoder_pipe.gemini-2.5-flash-image-preview",
     messages |-> "[user: draw a cat]"],
    [temperature |-> "0.7"] }

\* dict.get(key, default)
Get(d, k, default) == IF k \in DOMAIN d THEN d[k] ELSE default

\* {**a, **b}: on a key of both, the later mapping's value stays.
Merge(a, b) ==
  [k \in DOMAIN a \cup DOMAIN b |-> IF k \in DOMAIN b THEN b[k] ELSE a[k]]

\* Lines 114-119: {"model": model_id, "messages": ..., "stream": ..., **body}
Payload(model_id, body) ==
  Merge([model |-> model_id,
         messages |-> Get(body, "messages", "[]"),
         stream |-> Get(body, "stream", "false")],
        body)

\* Lines 109-111: header values as the pieces of their text.
Headers(api_key) ==
  IF api_key # ""
  THEN [ContentType |-> <<"application/json">>, Authorization |-> <<"Bearer ", api_key>>]
  ELSE [ContentType |-> <<"application/json">>]

NoRequest == [url |-> "", headers |-> <<>>, json |-> <<>>]

\* What the upstream answers: status line, Content-Type, and a body that
\* either is JSON text (valid, with the tree it parses to) or is not (raw).
Resp(status, ctype, valid, tree, raw) ==
  [status |-> status, ctype |-> ctype,
   body |-> [valid |-> valid, json |-> tree, raw |-> raw]]
NoResponse == Resp(0, "", FALSE, None, None)

ImagesTree ==
  JDict(<<Item(KeyData, JList(<<Item(<<>>, JDict(<<Item(KeyB64Json, LongA)>>))>>))>>)
NoImageTree == JDict(<<Item(KeyImageUrl, Short), Item(KeyData, LongB)>>)
SampleTrees == {ImagesTree, NoImageTree, None}
NotJson == JStr("n", 8)
LongNotJson == JStr("x", 501)
ServerError == JStr("e", 12)
Responses ==
  {Resp(200, "application/json", TRUE, t, None) : t \in SampleTrees}
  \cup {Resp(200, "application/json", FALSE, None, raw) : raw \in {NotJson, LongNotJson}}
  \cup {Resp(200, "text/html", FALSE, None, NotJson)}
  \cup {Resp(st, "text/plain", FALSE, None, ServerError) : st \in {400, 500}}

\* ------------------------------------------------------------------- init
LIdle ==
  /\ data = None /\ found = None /\ called = FALSE /\ depth = 0 /\ nsib = 0

PInit ==
  /\ valves = DefaultValves
  /\ AIOHTTP_SESSION = 0
  /\ nsessions = 0
  /\ closed = {}
  /\ pc = [i \in Inv |-> "idle"]
  /\ cfg = [i \in Inv |-> NoCfg]
  /\ session = [i \in Inv |-> 0]
  /\ request = [i \in Inv |-> NoRequest]
  /\ response = [i \in Inv |-> NoResponse]
  /\ out = [i \in Inv |-> <<>>]
  /\ err = [i \in Inv |-> ""]
  /\ raised = [i \in Inv |-> ""]
  /\ posts = [i \in Inv |-> 0]
  /\ printed = [i \in Inv |-> FALSE]

Init == LIdle /\ PInit

\* ------------------------------------------------------- locator: the calls
LInit ==
  /\ data \in Leaves
  /\ found = None
  /\ called = FALSE
  /\ depth = 0
  /\ nsib = 0
  /\ PInit

KeysOf(items) == {items[i].key : i \in 1..Len(items)}

\* The caller nests the tree built so far under key k of a new mapping.
WrapDict(k) ==
  /\ depth < MaxDepth
  /\ data' = JDict(<<Item(k, data)>>)
  /\ depth' = depth + 1
  /\ called' = FALSE /\ found' = None
  /\ UNCHANGED <<nsib, pvars>>

\* The caller nests the tree built so far as the only element of a new list.
WrapList ==
  /\ depth < MaxDepth
  /\ data' = JList(<<Item(<<>>, data)>>)
  /\ depth' = depth + 1
  /\ called' = FALSE /\ found' = None
  /\ UNCHANGED <<nsib, pvars>>

\* The caller adds a sibling entry before or after the existing ones (k is
\* the new key of a mapping; a list element has none).
AddSibling(k, sib, before) ==
  /\ nsib < MaxSiblings
  /\ data.t \in {"dict", "list"}
  /\ data.t = "dict" => k \notin KeysOf(data.items)
  /\ data.t = "list" => k = KeyData
  /\ LET e == IF data.t = "dict" THEN Item(k, sib) ELSE Item(<<>>, sib)
         items == IF before THEN <<e>> \o data.items ELSE Append(data.items, e)
     IN data' = [data EXCEPT !.items = items]
  /\ nsib' = nsib + 1
  /\ called' = FALSE /\ found' = None
  /\ UNCHANGED <<depth, pvars>>

\* The call found = self._find_base64_in_response(data).
Locate ==
  /\ ~called
  /\ found' = find_base64_in_response(data)
  /\ called' = TRUE
  /\ UNCHANGED <<data, depth, nsib, pvars>>

LNext ==
  \/ \E k \in Keys : WrapDict(k)
  \/ WrapList
  \/ \E k \in Keys, sib \in Siblings, before \in BOOLEAN : AddSibling(k, sib, before)
  \/ Locate

LocatorSpec == LInit /\ [][LNext]_vars

\* ----------------------------------------------------- pipe: the messages
\* A yielded string: the fixed text of its f-string (template) and the values
\* interpolated into it.
Msg(template, status, message, text) ==
  [template |-> template, status |-> status, message |-> message, text |-> text]
\* Line 105.
ConfigError == Msg("ERROR: pipe configuration incomplete", 0, "", None)
\* Line 134: f"data:image/png;base64,{base64_data}"
DataUrl(base64_data) == Msg("data:image/png;base64,", 0, "", base64_data)
\* Line 137.
NotFound == Msg("ERROR: no base64 image data in the JSON response", 0, "", None)
\* Line 144: f"...{e.status} {e.message}\n...\n{error_body}"
HttpError(status, message, error_body) ==
  Msg("API request failed", status, message, error_body)
\* The slice raw_text[:500] of line 147.
ExcerptLen == 500
Take(s, n) == [s EXCEPT !.len = IF s.len < n THEN s.len ELSE n]
\* Line 147: f"...'{raw_text[:500]}...'"
ParseError(raw_text) == Msg("ERROR: response is not JSON", 0, "", Take(raw_text, ExcerptLen))
\* Line 150: f"...{e}\n{traceback.format_exc()}"
UnknownError(e) == Msg("unknown error", 0, e, None)

\* ---------------------------------------------------- pipe: the exceptions
\* The exception classes that reach the handlers of lines 142-150, with the
\* class each derives from.
Base(cls) ==
  CASE cls = "ContentTypeError" -> "ClientResponseError"
    [] cls = "ClientResponseError" -> "ClientError"
    [] cls = "ClientConnectorError" -> "ClientError"
    [] cls = "ClientPayloadError" -> "ClientError"
    [] cls = "JSONDecodeError" -> "ValueError"
    [] OTHER -> "Exception"

RECURSIVE IsInstance(_, _)
\* Whether `except base` catches an exception of class cls.
IsInstance(cls, base) ==
  \/ cls = base
  \/ cls # "Exception" /\ IsInstance(Base(cls), base)

\* The attributes an aiohttp.ClientResponseError carries; line 143 reads
\* e.response.
ClientResponseErrorAttrs == {"request_info", "history", "status", "message", "headers"}

\* raise_for_status (line 125) raises from this status on.
ErrorStatus == 400

\* response.reason for the statuses used.
Reason(status) == IF status = 400 THEN "Bad Request" ELSE "Internal Server Error"

\* What leaves the try statement of lines 121-150 when exception cls was
\* raised in its body, resp being the response at hand: the strings yielded
\* and the exception raised by the handler itself ("" for none).
Outcome(yielded, exc) == [yielded |-> yielded, raised |-> exc]

\* Handlers that report the failure and then report it again.
HandleYieldsTwice(cls, resp) ==
  Outcome(<<UnknownError(cls), UnknownError(cls)>>, "")

Handle(cls, resp) ==
  IF IsInstance(cls, "ClientResponseError")
  THEN \* lines 142-144
       IF "response" \in ClientResponseErrorAttrs
       THEN Outcome(<<HttpError(resp.status, Reason(resp.status), resp.body.raw)>>, "")
       ELSE Outcome(<<>>, "AttributeError")
  ELSE IF IsInstance(cls, "JSONDecodeError")
  THEN \* lines 145-147; the body was read by response.json() and is cached
       Outcome(<<ParseError(resp.body.raw)>>, "")
  ELSE \* lines 148-150
       Outcome(<<UnknownError(cls)>>, "")

\* response.json() (line 126) once the body has arrived: the exception it
\* raises ("" for none).
JsonRaises(resp) ==
  IF resp.ctype # "application/json" THEN "ContentTypeError"
  ELSE IF ~resp.body.valid THEN "JSONDecodeError"
  ELSE ""

\* Lines 129-140: the strings yielded for a parsed response.
Report(result_json) ==
  LET base64_data == find_base64_in_response(result_json)
  IN IF Truthy(base64_data) THEN <<DataUrl(base64_data)>> ELSE <<NotFound>>

\* ------------------------------------------------------ pipe: the actions
\* A check of the URL alone.
ConfigCompleteUrlOnly(api_url, model_id) == api_url # ""

\* Line 104: all([api_url, model_id])
ConfigComplete(api_url, model_id) == api_url # "" /\ model_id # ""

\* A session per call.
NeedsNewSessionAlways(stored, closedSessions) == TRUE

\* Line 18: AIOHTTP_SESSION is None or AIOHTTP_SESSION.closed

NeedsNewSession(stored, closedSessions) == stored = 0 \/ stored \in closedSessions

InFlight(i) == pc[i] \in {"post", "json"}

\* The generator ends: what the try statement yielded is what the host
\* received, an exception raised by a handler leaves the generator, and the
\* frame's locals are gone.  The response stays as the record of what the
\* upstream answered.
Finish(i, cls, o, dumped) ==
  /\ pc' = [pc EXCEPT ![i] = "done"]
  /\ err' = [err EXCEPT ![i] = cls]
  /\ out' = [out EXCEPT ![i] = @ \o o.yielded]
  /\ raised' = [raised EXCEPT ![i] = o.raised]
  /\ printed' = [printed EXCEPT ![i] = dumped]
  /\ cfg' = [cfg EXCEPT ![i] = NoCfg]
  /\ session' = [session EXCEPT ![i] = 0]
  /\ request' = [request EXCEPT ![i] = NoRequest]

\* The administrator saves new valves.
SetValves(v) ==
  /\ v # valves
  /\ valves' = v
  /\ UNCHANGED <<lvars, AIOHTTP_SESSION, nsessions, closed,
                 pc, cfg, session, request, response, out, err, raised, posts, printed>>

\* Lines 95-124: the host calls pipe(body); the generator runs to its first
\* suspension, inside session.post (get_aiohttp_session has no await of its
\* own), or to its end on incomplete valves.
Start(i, body) ==
  /\ pc[i] = "idle"
  /\ LET api_url == valves.API_URL
         api_key == valves.API_KEY
         model_id == valves.MODEL_ID
     IN IF ~ConfigComplete(api_url, model_id)
        THEN /\ out' = [out EXCEPT ![i] = Append(@, ConfigError)]
             /\ pc' = [pc EXCEPT ![i] = "done"]
             /\ UNCHANGED <<AIOHTTP_SESSION, nsessions, cfg, session, request, posts>>
        ELSE LET fresh == NeedsNewSession(AIOHTTP_SESSION, closed)
                 s == IF fresh THEN nsessions + 1 ELSE AIOHTTP_SESSION
             IN /\ AIOHTTP_SESSION' = s
                /\ nsessions' = IF fresh THEN nsessions + 1 ELSE nsessions
                /\ session' = [session EXCEPT ![i] = s]
                /\ cfg' = [cfg EXCEPT ![i] =
                             [API_URL |-> api_url, API_KEY |-> api_key, MODEL_ID |-> model_id]]
                /\ request' = [request EXCEPT ![i] =
                                 [url |-> api_url, headers |-> Headers(api_key),
                                  json |-> Payload(model_id, body)]]
                /\ posts' = [posts EXCEPT ![i] = @ + 1]
                /\ pc' = [pc EXCEPT ![i] = "post"]
                /\ UNCHANGED out
  /\ UNCHANGED <<lvars, valves, closed, response, err, raised, printed>>

\* Line 124: the request fails in transit (connection refused, DNS, ...).
PostFails(i) ==
  /\ pc[i] = "post"
  /\ Finish(i, "ClientConnectorError", Handle("ClientConnectorError", response[i]), FALSE)
  /\ UNCHANGED <<lvars, valves, AIOHTTP_SESSION, nsessions, closed, response, posts>>

\* Lines 124-126: the status line and headers arrive; raise_for_status
\* raises on an error status, otherwise response.json() awaits the body.
PostReturns(i, resp) ==
  /\ pc[i] = "post"
  /\ response' = [response EXCEPT ![i] = resp]
  /\ IF resp.status >= ErrorStatus
     THEN Finish(i, "ClientResponseError", Handle("ClientResponseError", resp), FALSE)
     ELSE /\ pc' = [pc EXCEPT ![i] = "json"]
          /\ request' = [request EXCEPT ![i] = NoRequest]
          /\ UNCHANGED <<cfg, session, out, err, raised, printed>>
  /\ UNCHANGED <<lvars, valves, AIOHTTP_SESSION, nsessions, closed, posts>>

\* Line 126: the connection breaks while the body is read.
JsonFails(i) ==
  /\ pc[i] = "json"
  /\ Finish(i, "ClientPayloadError", Handle("ClientPayloadError", response[i]), FALSE)
  /\ UNCHANGED <<lvars, valves, AIOHTTP_SESSION, nsessions, closed, response, posts>>

\* Lines 126-150: the body has arrived; response.json() returns or raises,
\* and the generator runs to its end.
JsonReturns(i) ==
  /\ pc[i] = "json"
  /\ LET resp == response[i]
         exc == JsonRaises(resp)
     IN IF exc # ""
        THEN Finish(i, exc, Handle(exc, resp), FALSE)
        ELSE LET yielded == Report(resp.body.json)
             IN Finish(i, "", Outcome(yielded, ""), yielded = <<NotFound>>)
  /\ UNCHANGED <<lvars, valves, AIOHTTP_SESSION, nsessions, closed, response, posts>>

\* The host closes the shared session (the module itself never does) while
\* no invocation is between obtaining it and the end of its request.
HostClosesSession ==
  /\ AIOHTTP_SESSION # 0
  /\ AIOHTTP_SESSION \notin closed
  /\ Cardinality(closed) < MaxCloses
  /\ \A i \in Inv : ~InFlight(i)
  /\ closed' = closed \cup {AIOHTTP_SESSION}
  /\ UNCHANGED <<lvars, valves, AIOHTTP_SESSION, nsessions,
                 pc, cfg, session, request, response, out, err, raised, posts, printed>>

\* The host is through with a finished generator and may call pipe again.
Return(i) ==
  /\ pc[i] = "done"
  /\ pc' = [pc EXCEPT ![i] = "idle"]
  /\ response' = [response EXCEPT ![i] = NoResponse]
  /\ out' = [out EXCEPT ![i] = <<>>]
  /\ err' = [err EXCEPT ![i] = ""]
  /\ raised' = [raised EXCEPT ![i] = ""]
  /\ posts' = [posts EXCEPT ![i] = 0]
  /\ printed' = [printed EXCEPT ![i] = FALSE]
  /\ UNCHANGED <<lvars, valves, AIOHTTP_SESSION, nsessions, closed, cfg, session, request>>

Next ==
  \/ \E v \in ValvesChoices : SetValves(v)
  \/ \E i \in Inv, body \in Bodies : Start(i, body)
  \/ \E i \in Inv : PostFails(i)
  \/ \E i \in Inv, resp \in Responses : PostReturns(i, resp)
  \/ \E i \in Inv : JsonFails(i)
  \/ \E i \in Inv : JsonReturns(i)
  \/ \E i \in Inv : Return(i)
  \/ HostClosesSession

Spec == Init /\ [][Next]_vars

\* ================================================================ claims
\* ------------------------------------------------------- about the locator
RECURSIVE DirectStrings(_)
RECURSIVE DirectStringsOf(_, _, _)
\* Every string that is the direct value of a mapping key, with its key, in
\* document order (mapping entries in key order, list elements by index).
DirectStringsOf(items, i, mapping) ==
  IF i > Len(items) THEN <<>>
  ELSE (IF mapping /\ items[i].value.t = "str" THEN <<items[i]>>
        ELSE DirectStrings(items[i].value))
       \o DirectStringsOf(items, i + 1, mapping)

DirectStrings(tree) ==
  IF tree.t \in {"dict", "list"} THEN DirectStringsOf(tree.items, 1, tree.t = "dict")
  ELSE <<>>

IsLong(e) == e.value.len > 100
UnderBase64(e) == IsLong(e) /\ Contains(<<"b", "a", "s", "e", "6", "4">>, e.key)
Qualifying(e) ==
  /\ IsLong(e)
  /\ \/ Contains(<<"b", "6", "4">>, e.key)
     \/ Contains(<<"b", "a", "s", "e", "6", "4">>, e.key)
     \/ Contains(<<"i", "m", "a", "g", "e">>, e.key)
Base64Strings == SelectSeq(DirectStrings(data), UnderBase64)
QualifyingStrings == SelectSeq(DirectStrings(data), Qualifying)

\* C4 as stated: a tree with exactly one string longer than 100 under a key
\* containing "base64" makes the locator return that string, whatever
\* surrounds it.
C4_AsStated ==
  (called /\ Len(Base64Strings) = 1) => found = Base64Strings[1].value

\* C4, amended: a tree with exactly one string longer than 100 under a key
\* containing "base64" makes the locator return that string, whatever its
\* depth and siblings, provided no string longer than 100 directly under a
\* key containing "b64" or "image" comes before it in traversal order.
C4_Base64StringFound ==
  (called /\ Len(Base64Strings) = 1 /\ QualifyingStrings[1] = Base64Strings[1])
    => found = Base64Strings[1].value

\* The base64 string nested two levels down, followed by a long string under
\* a "b64"/"image" key, has been located.
C4_Witness ==
  /\ called /\ depth = 2
  /\ Len(Base64Strings) = 1 /\ Len(QualifyingStrings) = 2
  /\ QualifyingStrings[1] = Base64Strings[1]
  /\ found = Base64Strings[1].value

\* C5: with several qualifying strings in the tree, the locator returns the
\* first of them in depth-first pre-order (mapping entries in key order, list
\* elements by index); one nested in an earlier entry beats one directly
\* under a later key.
C5_FirstInPreOrder ==
  (called /\ Len(QualifyingStrings) >= 2) => found = QualifyingStrings[1].value

\* Two different qualifying strings, the first nested inside the first entry
\* of the top mapping, the second directly under its second key; the nested
\* one was returned.
C5_Witness ==
  /\ called /\ Len(QualifyingStrings) = 2
  /\ QualifyingStrings[1].value # QualifyingStrings[2].value
  /\ data.t = "dict" /\ Len(data.items) = 2
  /\ data.items[1].value.t \in {"dict", "list"}
  /\ data.items[2] = QualifyingStrings[2]
  /\ found = QualifyingStrings[1].value

\* C6: a tree without a string longer than 100 directly under a key
\* containing "b64", "base64" or "image" gives None, and whatever the locator
\* returns is such a string.
C6_OnlyQualifyingReturned ==
  called =>
    /\ QualifyingStrings = <<>> => found = None
    /\ found # None =>
         \E j \in 1..Len(QualifyingStrings) : QualifyingStrings[j].value = found

\* A tree holding a long string under a key that does not qualify, and no
\* qualifying string, gave None.
C6_Witness ==
  /\ called /\ found = None /\ QualifyingStrings = <<>>
  /\ \E j \in 1..Len(DirectStrings(data)) : IsLong(DirectStrings(data)[j])

\* ---------------------------------------------------------- about pipe
\* C1: every failure of an invocation is caught inside pipe and turned into
\* exactly one yielded string, and no exception leaves the generator, not
\* even one raised while a handler builds its message.
C1_NoExceptionEscapes ==
  \A i \in Inv :
    (pc[i] = "done" /\ err[i] # "") => (raised[i] = "" /\ Len(out[i]) = 1)

\* C2: the payload sent carries the configured MODEL_ID as its model,
\* whatever the host payload holds, a model key of its own included.
C2_ConfiguredModelSent ==
  \A i \in Inv : pc[i] = "post" => request[i].json["model"] = cfg[i].MODEL_ID

\* C3: an upstream answer with status >= 400 makes pipe yield a string that
\* holds the status code and the raw text of the response body.
C3_StatusAndBodyReported ==
  \A i \in Inv :
    (pc[i] = "done" /\ response[i].status >= 400) =>
      \E k \in 1..Len(out[i]) :
        /\ out[i][k].status = response[i].status
        /\ out[i][k].text = response[i].body.raw

C8_IncompleteConfigStops ==
  [][\A i \in Inv :
       (/\ pc[i] = "idle" /\ pc'[i] # "idle"
        /\ (valves.API_URL = "" \/ valves.MODEL_ID = ""))
       => /\ pc'[i] = "done"
          /\ out'[i] = <<ConfigError>>
          /\ err'[i] = "" /\ raised'[i] = ""
          /\ session'[i] = 0
          /\ posts'[i] = 0
          /\ request'[i].url = ""
          /\ AIOHTTP_SESSION' = AIOHTTP_SESSION
          /\ nsessions' = nsessions
          /\ closed' = closed]_vars

\* A call made with incomplete valves has ended with the configuration
\* error while another invocation's request is on its way through the
\* stored session.
C8_Witness ==
  \E i, j \in Inv :
    /\ pc[i] = "done" /\ out[i] = <<ConfigError>> /\ posts[i] = 0
    /\ ~ConfigComplete(valves.API_URL, valves.MODEL_ID)
    /\ pc[j] = "post" /\ session[j] = AIOHTTP_SESSION

\* C9: a session is created, and stored, exactly when the stored one is
\* absent or closed, and is otherwise handed out unchanged; no session is
\* created while the stored one is open; invocations that overlap post
\* through the same session, the stored one; no invocation closes a session.
C9_SessionShared ==
  [][/\ \A i \in Inv :
          (pc[i] = "idle" /\ pc'[i] = "post") =>
            /\ session'[i] = AIOHTTP_SESSION'
            /\ IF AIOHTTP_SESSION = 0 \/ AIOHTTP_SESSION \in closed
               THEN /\ nsessions' = nsessions + 1
                    /\ AIOHTTP_SESSION' = nsessions'
               ELSE /\ nsessions' = nsessions
                    /\ AIOHTTP_SESSION' = AIOHTTP_SESSION
     /\ nsessions' # nsessions => (AIOHTTP_SESSION = 0 \/ AIOHTTP_SESSION \in closed)
     /\ (\E i \in Inv : pc'[i] # pc[i]) => closed' = closed
     /\ \A i, j \in Inv :
          (pc'[i] \in {"post", "json"} /\ pc'[j] \in {"post", "json"}) =>
            /\ session'[i] = session'[j]
            /\ session'[i] = AIOHTTP_SESSION'
            /\ session'[i] \notin closed']_vars

\* After the host closed the first session, two overlapping invocations post
\* through the second one.
C9_Witness ==
  \E i, j \in Inv :
    /\ i # j
    /\ pc[i] = "post" /\ pc[j] = "json"
    /\ nsessions = 2 /\ closed = {1}
    /\ session[i] = 2 /\ session[j] = 2 /\ AIOHTTP_SESSION = 2

\* C10: a success status with a body that is not JSON makes pipe yield one
\* string holding the raw body cut to at most 500 characters, and nothing is
\* raised, whichever exception the JSON-reading step raised for that body.
C10_ExcerptReported ==
  \A i \in Inv :
    (/\ pc[i] = "done"
     /\ err[i] \in {"JSONDecodeError", "ContentTypeError"}
     /\ ~response[i].body.valid)
    => /\ raised[i] = ""
       /\ Len(out[i]) = 1
       /\ out[i][1].text.c = response[i].body.raw.c
       /\ out[i][1].text.len <= 500
       /\ out[i][1].text.len <= response[i].body.raw.len
       /\ out[i][1].text.len = 500 \/ out[i][1].text.len = response[i].body.raw.len

====
